---- MODULE Spec2Model ----
(***************************************************************************)
(* Check-in request handler of the scavenger hunt (src/components/         *)
(* Navbar.tsx, lines 43-251): handler / get / post / buildTransaction and  *)
(* their helpers, together with the on-chain UserState accounts they read  *)
(* and the transactions they hand out.                                     *)
(***************************************************************************)
EXTENDS Integers, Sequences, FiniteSets, Bags, TLC

VARIABLES accounts, outstanding, last

vars == <<accounts, outstanding, last>>

(* ------------------------------ bounds --------------------------------- *)

\* number of registered locations (utils/locations is a static list)
NumLocations == 3

\* number of returned transactions that may wait for submission at once
MaxOutstanding == 2

(* ------------------------------- keys ---------------------------------- *)

\* Public keys are modelled as integers; their base58 text form is a tagged
\* pair, so that parsing (new PublicKey) and printing (toString) are real
\* conversions.
eventOrganizer == 301

gameId == 401

\* The accounts that play: an ordinary player, and the organizer's own key
\* posted as the account (the key is public, and nothing in post or
\* buildTransaction tells it apart).
Users == {101, eventOrganizer}

References == {201}

\* Pubkey::default(), the value of lastLocation right after initialize
DefaultKey == 0

LocationKey(i) == 500 + i

\* a key that belongs to no registered location
ForeignKey == LocationKey(NumLocations + 1)

toString(key) == <<"b58", key>>

\* text that is no base58 key: new PublicKey throws on it
BadKeyText == <<"junk", 0>>

ValidKeyText(text) == Len(text) = 2 /\ text[1] = "b58"

\* new PublicKey(text), for valid text
PublicKey(text) == text[2]

(* ------------------------ the location registry ------------------------ *)

locations == [i \in 1..NumLocations |-> [index |-> i, key |-> LocationKey(i)]]

NoLocation == [index |-> 0, key |-> DefaultKey]

\* a JS number: NaN, or an integer value
NaN == [nan |-> TRUE, val |-> 0]

Num(v) == [nan |-> FALSE, val |-> v]

locationAtIndex(n) ==
  IF ~n.nan /\ \E i \in 1..Len(locations) : locations[i].index = n.val
    THEN locations[CHOOSE i \in 1..Len(locations) : locations[i].index = n.val]
    ELSE NoLocation

(* ------------------------- request parameters -------------------------- *)

\* A body or query value: absent (undefined) or a string.  Key strings are
\* base58 text; the id is a string of characters.
Undefined == [present |-> FALSE, val |-> <<>>]

Str(s) == [present |-> TRUE, val |-> s]

\* JS truthiness of an optional string: undefined and "" are falsy
Falsy(v) == ~v.present \/ v.val = <<>>

Digits == {"0", "1", "2", "3", "4", "5", "6", "7", "8", "9"}

DigitVal(c) ==
  CASE c = "0" -> 0 [] c = "1" -> 1 [] c = "2" -> 2 [] c = "3" -> 3
    [] c = "4" -> 4 [] c = "5" -> 5 [] c = "6" -> 6 [] c = "7" -> 7
    [] c = "8" -> 8 [] c = "9" -> 9

DigitOf(n) ==
  CASE n = 0 -> "0" [] n = 1 -> "1" [] n = 2 -> "2" [] n = 3 -> "3"
    [] n = 4 -> "4" [] n = 5 -> "5" [] n = 6 -> "6" [] n = 7 -> "7"
    [] n = 8 -> "8" [] n = 9 -> "9"

RECURSIVE DecimalValue(_)
DecimalValue(chars) ==
  IF chars = <<>> THEN 0
  ELSE 10 * DecimalValue(SubSeq(chars, 1, Len(chars) - 1))
         + DigitVal(chars[Len(chars)])

AllDigits(chars) == \A i \in 1..Len(chars) : chars[i] \in Digits

\* new Number(id).valueOf(): the empty string is 0, a string of decimal
\* digits its value (leading zeros allowed), a minus sign negates, and any
\* other text is NaN
ToNumber(chars) ==
  IF chars = <<>> THEN Num(0)
  ELSE IF AllDigits(chars) THEN Num(DecimalValue(chars))
  ELSE IF chars[1] = "-" /\ Len(chars) > 1 /\ AllDigits(Tail(chars))
    THEN Num(0 - DecimalValue(Tail(chars)))
  ELSE NaN

(* ----------------------------- UserState ------------------------------- *)

\* The UserState account of the external program; null (no account, or
\* nothing fetched) is the record with exists = FALSE.
NoUserState == [exists |-> FALSE, lastLocation |-> DefaultKey]

UserStateAt(key) == [exists |-> TRUE, lastLocation |-> key]

\* the address at which the external program keeps a user's UserState
UserStateAddress(user) == <<gameId, user>>

Addresses == {UserStateAddress(u) : u \in Users}

\* PublicKey.findProgramAddressSync([gameId, account], programId)[0]
userStatePDAShared(account) == <<gameId, CHOOSE u \in Users : TRUE>>

userStatePDA(account) == <<gameId, account>>

\* program.account.userState.fetch throws when the account does not exist
\* and when the read fails; both are caught and answered with null
fetchUserState(accts, account, fetchOk) ==
  IF fetchOk /\ accts[userStatePDA(account)].exists
    THEN accts[userStatePDA(account)]
    ELSE NoUserState

\* locations.find(location => location.key.toString() ==
\*                            userState.lastLocation.toString())
FindLastLocation(userState) ==
  IF \E i \in 1..Len(locations) :
       toString(locations[i].key) = toString(userState.lastLocation)
    THEN locations[CHOOSE i \in 1..Len(locations) :
           toString(locations[i].key) = toString(userState.lastLocation)]
    ELSE NoLocation

\* an ordering check that passes every location
verifyCorrectLocationAlways(userState, currentLocation) == TRUE

\* an ordering check that lets a user without state start anywhere
verifyCorrectLocationAnyFirst(userState, currentLocation) ==
  IF ~userState.exists THEN TRUE
  ELSE LET lastLocation == FindLastLocation(userState) IN
         lastLocation # NoLocation
           /\ currentLocation.index = lastLocation.index + 1

verifyCorrectLocation(userState, currentLocation) ==
  IF ~userState.exists THEN currentLocation.index = 1
  ELSE LET lastLocation == FindLastLocation(userState) IN
         IF lastLocation = NoLocation
              \/ currentLocation.index # lastLocation.index + 1
           THEN FALSE
           ELSE TRUE

(* ---------------------------- transactions ----------------------------- *)

AccountMeta(pubkey, isSigner, isWritable) ==
  [pubkey |-> pubkey, isSigner |-> isSigner, isWritable |-> isWritable]

\* program.methods.initialize(gameId).accounts({user: account}).instruction()
createInitUserInstruction(account) ==
  [name |-> "initialize",
   args |-> <<gameId>>,
   keys |-> <<AccountMeta(account, TRUE, TRUE)>>]

\* a check-in instruction whose reference is pushed as a signer
createCheckInInstructionSignerReference(account, reference, location) ==
  [name |-> "checkIn",
   args |-> <<gameId, location.key>>,
   keys |-> <<AccountMeta(account, TRUE, TRUE),
              AccountMeta(eventOrganizer, TRUE, FALSE),
              AccountMeta(reference, TRUE, FALSE)>>]

\* program.methods.checkIn(gameId, location.key).accounts({user, eventOrganizer})
\* .instruction(), then the reference pushed onto its keys
createCheckInInstruction(account, reference, location) ==
  LET checkInInstruction ==
        [name |-> "checkIn",
         args |-> <<gameId, location.key>>,
         keys |-> <<AccountMeta(account, TRUE, TRUE),
                    AccountMeta(eventOrganizer, TRUE, FALSE)>>]
  IN [checkInInstruction EXCEPT
        !.keys = Append(@, AccountMeta(reference, FALSE, FALSE))]

\* new Transaction({feePayer, blockhash, lastValidBlockHeight})
NewTransaction(feePayer) ==
  [feePayer |-> feePayer, instructions |-> <<>>, signatures |-> {}]

\* an add that puts the instruction in front
addFirst(transaction, instruction) ==
  [transaction EXCEPT !.instructions = <<instruction>> \o @]

add(transaction, instruction) ==
  [transaction EXCEPT !.instructions = Append(@, instruction)]

partialSign(transaction, signer) ==
  [transaction EXCEPT !.signatures = @ \cup {signer.pubkey}]

\* serialize(...).toString('base64'); the empty string is <<>>
Base64(transaction) == <<"base64", transaction>>

Base64Decode(text) == text[2]

EmptyString == <<>>

\* lines 164-172 followed by a submission of the signed transaction
signSerializeAndSend(transaction) ==
  LET signed == partialSign(transaction, [pubkey |-> eventOrganizer]) IN
  [value |-> Base64(signed),
   trace |-> <<"partialSign", "serialize">>,
   submitted |-> <<signed>>]

\* transaction.partialSign(eventOrganizer); serialize({requireAllSignatures:
\* false}); toString('base64').  Nothing is sent to the cluster.
signAndSerialize(transaction) ==
  LET signed == partialSign(transaction, [pubkey |-> eventOrganizer]) IN
  [value |-> Base64(signed),
   trace |-> <<"partialSign", "serialize">>,
   submitted |-> <<>>]

(* --------------------------- network outcomes -------------------------- *)

\* what connection.getLatestBlockhash() does: it answers, or it rejects
\* with an error whose message is non-empty or empty
BlockhashOk == [ok |-> TRUE, message |-> <<>>]

BlockhashFails == [ok |-> FALSE, message |-> <<"failed to get recent blockhash">>]

BlockhashFailsBare == [ok |-> FALSE, message |-> <<>>]

BlockhashOutcomes == {BlockhashOk, BlockhashFails, BlockhashFailsBare}

NetOutcomes == [fetchOk : BOOLEAN, blockhash : BlockhashOutcomes]

(* --------------------------- buildTransaction -------------------------- *)

Returned(value, trace, submitted) ==
  [ok |-> TRUE, value |-> value, message |-> <<>>, trace |-> trace,
   submitted |-> submitted]

Thrown(message, trace) ==
  [ok |-> FALSE, value |-> EmptyString, message |-> message, trace |-> trace,
   submitted |-> <<>>]

\* a buildTransaction that fetches the blockhash before it validates
buildTransactionBlockhashFirst(account, reference, id, accts, net) ==
  LET userState == fetchUserState(accts, account, net.fetchOk)
      currentLocation == locationAtIndex(ToNumber(id))
      t1 == <<"fetchUserState", "getLatestBlockhash", "locationAtIndex">>
  IN
  IF ~net.blockhash.ok
    THEN Thrown(net.blockhash.message, <<"fetchUserState", "getLatestBlockhash">>)
  ELSE IF currentLocation = NoLocation
    THEN Thrown(<<"Invalid location id">>, t1)
  ELSE IF ~verifyCorrectLocation(userState, currentLocation)
    THEN Thrown(<<"You must visit each location in order!">>,
                t1 \o <<"verifyCorrectLocation">>)
  ELSE
    LET t2 == t1 \o <<"verifyCorrectLocation">>
        transaction == NewTransaction(account)
        withInit ==
          IF ~userState.exists
            THEN add(transaction, createInitUserInstruction(account))
            ELSE transaction
        t3 == IF ~userState.exists
                THEN t2 \o <<"createInitUserInstruction">>
                ELSE t2
        withCheckIn ==
          add(withInit,
              createCheckInInstruction(account, reference, currentLocation))
        r == signAndSerialize(withCheckIn)
    IN Returned(r.value,
                t3 \o <<"createCheckInInstruction">> \o r.trace,
                r.submitted)

buildTransaction(account, reference, id, accts, net) ==
  LET userState == fetchUserState(accts, account, net.fetchOk)
      currentLocation == locationAtIndex(ToNumber(id))
      t1 == <<"fetchUserState", "locationAtIndex">>
  IN
  IF currentLocation = NoLocation
    THEN Thrown(<<"Invalid location id">>, t1)
  ELSE IF ~verifyCorrectLocation(userState, currentLocation)
    THEN Thrown(<<"You must visit each location in order!">>,
                t1 \o <<"verifyCorrectLocation">>)
  ELSE IF ~net.blockhash.ok
    THEN Thrown(net.blockhash.message,
                t1 \o <<"verifyCorrectLocation", "getLatestBlockhash">>)
  ELSE
    LET t2 == t1 \o <<"verifyCorrectLocation", "getLatestBlockhash">>
        transaction == NewTransaction(account)
        withInit ==
          IF ~userState.exists
            THEN add(transaction, createInitUserInstruction(account))
            ELSE transaction
        t3 == IF ~userState.exists
                THEN t2 \o <<"createInitUserInstruction">>
                ELSE t2
        withCheckIn ==
          add(withInit,
              createCheckInInstruction(account, reference, currentLocation))
        r == signAndSerialize(withCheckIn)
    IN Returned(r.value,
                t3 \o <<"createCheckInInstruction">> \o r.trace,
                r.submitted)

(* ------------------------------ the handler ---------------------------- *)

NoTransaction == [present |-> FALSE, val |-> EmptyString]

\* res.status(status).json(body), with the calls made on the way and the
\* transactions the server itself sent to the cluster
Response(status, kind, transaction, message, error, trace, submitted) ==
  [status |-> status, kind |-> kind, transaction |-> transaction,
   message |-> message, error |-> error, trace |-> trace,
   submitted |-> submitted]

\* {label, icon}, carried in the message field
get ==
  Response(200, "descriptor", NoTransaction,
           <<"Scavenger Hunt!",
             "https://solana.com/src/img/branding/solanaLogoMark.svg">>,
           <<>>, <<>>, <<>>)

\* a catch block that answers every error with the generic 500
catchAlways500(message, trace) ==
  Response(500, "error", NoTransaction, <<>>,
           <<"error creating transaction">>, trace, <<>>)

\* the catch block of post: an error with a truthy message is answered with
\* status 200, the message and an empty transaction; any other with 500
catch(message, trace) ==
  IF message # <<>>
    THEN Response(200, "transaction", Str(EmptyString), message, <<>>,
                  trace, <<>>)
    ELSE Response(500, "error", NoTransaction, <<>>,
                  <<"error creating transaction">>, trace, <<>>)

\* a parameter check that forgets the id
MissingParameterButId(req) == Falsy(req.account) \/ Falsy(req.reference)

\* !account || !reference || !id
MissingParameter(req) ==
  Falsy(req.account) \/ Falsy(req.reference) \/ Falsy(req.id)

post(req, accts, net) ==
  IF MissingParameter(req)
    THEN Response(400, "error", NoTransaction, <<>>,
                  <<"Missing required parameter(s)">>, <<>>, <<>>)
  ELSE IF ~ValidKeyText(req.account.val) \/ ~ValidKeyText(req.reference.val)
    THEN catch(<<"Invalid public key input">>, <<>>)
  ELSE
    LET r == buildTransaction(PublicKey(req.account.val),
                              PublicKey(req.reference.val),
                              req.id.val, accts, net)
    IN IF r.ok
         THEN Response(200, "transaction", Str(r.value),
                       <<"You've found location ", req.id.val>>, <<>>,
                       r.trace, r.submitted)
         ELSE catch(r.message, r.trace)

\* a dispatch without the GET branch
handlerWithoutGet(req, accts, net) ==
  IF req.method = "POST" THEN post(req, accts, net)
  ELSE Response(405, "error", NoTransaction, <<>>,
                <<"Method not allowed">>, <<>>, <<>>)

\* a dispatch that sends every method but GET to post
handlerPostByDefault(req, accts, net) ==
  IF req.method = "GET" THEN get ELSE post(req, accts, net)

handler(req, accts, net) ==
  IF req.method = "GET" THEN get
  ELSE IF req.method = "POST" THEN post(req, accts, net)
  ELSE Response(405, "error", NoTransaction, <<>>,
                <<"Method not allowed">>, <<>>, <<>>)

(* ------------------------- the external program ------------------------ *)

\* index of the location a key belongs to; 0 for the default key of a fresh
\* UserState, -1 for a key of no registered location
IndexOfKey(key) ==
  IF key = DefaultKey THEN 0
  ELSE IF \E i \in 1..Len(locations) : locations[i].key = key
    THEN locations[CHOOSE i \in 1..Len(locations) : locations[i].key = key].index
  ELSE -1

Failed(accts) == [ok |-> FALSE, accts |-> accts]

Done(accts) == [ok |-> TRUE, accts |-> accts]

\* a program whose checkIn records the location without looking at the order
ExecuteInstructionUnchecked(accts, ins) ==
  LET addr == UserStateAddress(ins.keys[1].pubkey) IN
  IF ins.name = "initialize"
    THEN IF accts[addr].exists THEN Failed(accts)
         ELSE Done([accts EXCEPT ![addr] = UserStateAt(DefaultKey)])
  ELSE IF accts[addr].exists
    THEN Done([accts EXCEPT ![addr] = UserStateAt(ins.args[2])])
    ELSE Failed(accts)

\* initialize creates the user's UserState and fails when it exists;
\* checkIn re-validates the order and records the location
ExecuteInstruction(accts, ins) ==
  LET addr == UserStateAddress(ins.keys[1].pubkey) IN
  IF ins.name = "initialize"
    THEN IF accts[addr].exists THEN Failed(accts)
         ELSE Done([accts EXCEPT ![addr] = UserStateAt(DefaultKey)])
  ELSE
    LET location == ins.args[2] IN
    IF accts[addr].exists
         /\ IndexOfKey(accts[addr].lastLocation) >= 0
         /\ IndexOfKey(location) = IndexOfKey(accts[addr].lastLocation) + 1
      THEN Done([accts EXCEPT ![addr] = UserStateAt(location)])
      ELSE Failed(accts)

RECURSIVE ExecuteInstructions(_, _)
ExecuteInstructions(accts, instructions) ==
  IF instructions = <<>> THEN Done(accts)
  ELSE LET r == ExecuteInstruction(accts, Head(instructions)) IN
         IF r.ok THEN ExecuteInstructions(r.accts, Tail(instructions))
         ELSE r

\* the keys an instruction marks as signers, and the fee payer
RequiredSigners(transaction) ==
  {transaction.feePayer} \cup
  UNION {{transaction.instructions[i].keys[j].pubkey :
            j \in {k \in 1..Len(transaction.instructions[i].keys) :
                     transaction.instructions[i].keys[k].isSigner}} :
         i \in 1..Len(transaction.instructions)}

\* A transaction is atomic: it is applied whole or not at all, and not at
\* all unless every required signature is present.
ExecuteTransaction(accts, transaction) ==
  IF RequiredSigners(transaction) \subseteq transaction.signatures
    THEN LET r == ExecuteInstructions(accts, transaction.instructions) IN
           IF r.ok THEN r.accts ELSE accts
    ELSE accts

RECURSIVE ExecuteAll(_, _)
ExecuteAll(accts, transactions) ==
  IF transactions = <<>> THEN accts
  ELSE ExecuteAll(ExecuteTransaction(accts, Head(transactions)),
                  Tail(transactions))

(* ------------------------------- requests ------------------------------ *)

Methods == {"GET", "POST", "PUT"}

AccountInputs == {Undefined, Str(BadKeyText)} \cup {Str(toString(u)) : u \in Users}

ReferenceInputs == {Undefined, Str(BadKeyText)} \cup {Str(toString(r)) : r \in References}

\* "1" .. the first unregistered index, "01", "x", the empty string
IdTexts ==
  {<<DigitOf(i)>> : i \in 1..(NumLocations + 1)} \cup {<<"0", "1">>, <<"x">>, <<>>}

IdInputs == {Undefined} \cup {Str(t) : t \in IdTexts}

\* POST requests take every combination of the parameters; the other
\* methods, whose handling reads no parameter, take the id absent or "1"
Requests ==
  [method : {"POST"}, account : AccountInputs, reference : ReferenceInputs,
   id : IdInputs]
    \cup [method : Methods \ {"POST"}, account : AccountInputs,
          reference : ReferenceInputs, id : {Undefined, Str(<<"1">>)}]

NoRequest ==
  [method |-> "NONE", account |-> Undefined, reference |-> Undefined,
   id |-> Undefined]

NoUser == DefaultKey

\* the user a request names, if its account is a key
UserOf(req) ==
  IF req.account.present /\ ValidKeyText(req.account.val)
    THEN PublicKey(req.account.val)
    ELSE NoUser

\* the outcomes of the network calls a request made; a call that was not
\* made has no outcome
Observed(net, trace) ==
  [fetchOk |-> IF \E i \in 1..Len(trace) : trace[i] = "fetchUserState"
                 THEN net.fetchOk ELSE TRUE,
   blockhash |-> IF \E i \in 1..Len(trace) : trace[i] = "getLatestBlockhash"
                   THEN net.blockhash ELSE BlockhashOk]

HasTransaction(resp) ==
  resp.transaction.present /\ resp.transaction.val # EmptyString

(* ------------------------------- the system ---------------------------- *)

InitialStates ==
  {NoUserState, UserStateAt(ForeignKey)}
    \cup {UserStateAt(locations[i].key) : i \in 1..Len(locations)}

NoNet == [fetchOk |-> TRUE, blockhash |-> BlockhashOk]

Idle ==
  [phase |-> "idle", req |-> NoRequest, net |-> NoNet, prior |-> NoUserState,
   resp |-> get]

Init ==
  /\ accounts \in [Addresses -> InitialStates]
  /\ outstanding = EmptyBag
  /\ last = Idle

\* An HTTP request reaches the endpoint.
Receive ==
  /\ last.phase = "idle"
  /\ \E req \in Requests : last' = [Idle EXCEPT !.phase = "received", !.req = req]
  /\ UNCHANGED <<accounts, outstanding>>

\* a handler that refuses to hand out a transaction it has already handed out
HandleDeduplicating(net) ==
  LET req == last.req
      full == handler(req, accounts, net)
      resp == IF HasTransaction(full) /\ BagIn(full.transaction.val, outstanding)
                THEN catch(<<"You must visit each location in order!">>, full.trace)
                ELSE full
  IN /\ last.phase = "received"
     /\ HasTransaction(resp) => BagCardinality(outstanding) < MaxOutstanding
     /\ last' = [phase |-> "responded", req |-> req,
                 net |-> Observed(net, resp.trace),
                 prior |-> IF UserOf(req) \in Users
                             THEN accounts[UserStateAddress(UserOf(req))]
                             ELSE NoUserState,
                 resp |-> resp]
     /\ accounts' = ExecuteAll(accounts, resp.submitted)
     /\ UNCHANGED outstanding

\* One run of handler, from dispatch to res.status(..).json(..).  prior
\* remembers the UserState the user had when the handler ran.
Handle(net) ==
  LET req == last.req
      resp == handler(req, accounts, net)
  IN /\ last.phase = "received"
     /\ HasTransaction(resp) => BagCardinality(outstanding) < MaxOutstanding
     /\ last' = [phase |-> "responded", req |-> req,
                 net |-> Observed(net, resp.trace),
                 prior |-> IF UserOf(req) \in Users
                             THEN accounts[UserStateAddress(UserOf(req))]
                             ELSE NoUserState,
                 resp |-> resp]
     /\ accounts' = ExecuteAll(accounts, resp.submitted)
     /\ UNCHANGED outstanding

GetRequest == last.req.method = "GET" /\ Handle(NoNet)

PostRequest == last.req.method = "POST" /\ \E net \in NetOutcomes : Handle(net)

OtherRequest == last.req.method \notin {"GET", "POST"} /\ Handle(NoNet)

\* The client takes the response; a returned transaction now waits with the
\* player's wallet.
Deliver ==
  /\ last.phase = "responded"
  /\ outstanding' = IF HasTransaction(last.resp)
                      THEN outstanding (+) SetToBag({last.resp.transaction.val})
                      ELSE outstanding
  /\ last' = Idle
  /\ UNCHANGED accounts

\* The player's wallet signs a returned transaction and submits it; the
\* external program executes it.
Submit ==
  \E text \in BagToSet(outstanding) :
    LET transaction == Base64Decode(text)
        signed == partialSign(transaction, [pubkey |-> transaction.feePayer])
    IN /\ accounts' = ExecuteTransaction(accounts, signed)
       /\ outstanding' = outstanding (-) SetToBag({text})
       /\ UNCHANGED last

Next == Receive \/ GetRequest \/ PostRequest \/ OtherRequest \/ Deliver \/ Submit

Spec == Init /\ [][Next]_vars

(* ------------------------- vocabulary of the claims -------------------- *)

Responded == last.phase = "responded"

WellFormedPost ==
  /\ last.req.method = "POST"
  /\ ~Falsy(last.req.account) /\ ~Falsy(last.req.reference) /\ ~Falsy(last.req.id)
  /\ ValidKeyText(last.req.account.val) /\ ValidKeyText(last.req.reference.val)

\* a valid POST has been answered: keys well formed, id an integer
ValidPost == Responded /\ WellFormedPost /\ ~ToNumber(last.req.id.val).nan

RequestedId == ToNumber(last.req.id.val).val

RegisteredIndices == {locations[i].index : i \in 1..Len(locations)}

\* index of the registered location with this key, 0 if there is none
RegisteredIndexOf(key) ==
  IF \E i \in 1..Len(locations) : locations[i].key = key
    THEN locations[CHOOSE i \in 1..Len(locations) : locations[i].key = key].index
    ELSE 0

PriorIndex == RegisteredIndexOf(last.prior.lastLocation)

InstructionNames(resp) ==
  LET ins == Base64Decode(resp.transaction.val).instructions
  IN [i \in 1..Len(ins) |-> ins[i].name]

EmptyTransaction200(resp, message) ==
  /\ resp.status = 200
  /\ resp.transaction = Str(EmptyString)
  /\ resp.message = message

OutOfOrderVisit(resp) ==
  EmptyTransaction200(resp, <<"You must visit each location in order!">>)

InvalidLocation(resp) == EmptyTransaction200(resp, <<"Invalid location id">>)

(* -------------------------------- claims ------------------------------- *)

\* C1: a valid POST answered while the user's UserState is at the registered
\* location N returns a transaction only for id = N+1, holding the check-in
\* instruction alone, and every id <= N or id > N+1 gets OutOfOrderVisit.
C1_OnlyNextAfterN ==
  (ValidPost /\ last.prior.exists /\ PriorIndex >= 1) =>
    /\ HasTransaction(last.resp) =>
         /\ RequestedId = PriorIndex + 1
         /\ InstructionNames(last.resp) = <<"checkIn">>
    /\ (RequestedId <= PriorIndex \/ RequestedId > PriorIndex + 1) =>
         OutOfOrderVisit(last.resp)

\* C2 as stated: with no prior UserState only id = 1 produces a transaction
\* (initialize, then check-in), and every other id gets OutOfOrderVisit.
C2_OnlyFirstWithoutState_AsStated ==
  (ValidPost /\ ~last.prior.exists) =>
    /\ HasTransaction(last.resp) =>
         /\ RequestedId = 1
         /\ InstructionNames(last.resp) = <<"initialize", "checkIn">>
    /\ RequestedId # 1 => OutOfOrderVisit(last.resp)

\* C2 (amended): with no prior UserState only id = 1 produces a transaction
\* (initialize, then check-in), and does so whenever the blockhash fetch
\* succeeds; every other registered id gets OutOfOrderVisit and an id of no
\* registered location gets InvalidLocation.
C2_OnlyFirstWithoutState ==
  (ValidPost /\ ~last.prior.exists) =>
    /\ HasTransaction(last.resp) =>
         /\ RequestedId = 1
         /\ InstructionNames(last.resp) = <<"initialize", "checkIn">>
    /\ (RequestedId = 1 /\ last.net.blockhash.ok) => HasTransaction(last.resp)
    /\ (RequestedId # 1 /\ RequestedId \in RegisteredIndices) =>
         OutOfOrderVisit(last.resp)
    /\ RequestedId \notin RegisteredIndices => InvalidLocation(last.resp)

C2_Witness ==
  /\ ValidPost /\ ~last.prior.exists
  /\ HasTransaction(last.resp)
  /\ InstructionNames(last.resp) = <<"initialize", "checkIn">>

\* C3: a user's recorded position changes only from no state to location 1
\* or from location N to location N+1, in every interleaving of requests and
\* executions of returned transactions, stale ones included.
C3_PositionAdvancesByOne ==
  [][\A u \in Users :
       LET before == accounts[UserStateAddress(u)]
           after == accounts'[UserStateAddress(u)]
       IN before # after =>
            \/ ~before.exists /\ after = UserStateAt(locations[1].key)
            \/ /\ before.exists /\ after.exists
               /\ RegisteredIndexOf(before.lastLocation) >= 1
               /\ RegisteredIndexOf(after.lastLocation)
                    = RegisteredIndexOf(before.lastLocation) + 1]_vars

CheckInTarget(text) ==
  LET ins == Base64Decode(text).instructions IN ins[Len(ins)].args[2]

\* a returned transaction is still waiting although its user has already
\* reached the location it checks in at
C3_Witness ==
  \E text \in BagToSet(outstanding) :
    LET state == accounts[UserStateAddress(Base64Decode(text).feePayer)] IN
    /\ state.exists
    /\ RegisteredIndexOf(state.lastLocation) >= 1
    /\ RegisteredIndexOf(state.lastLocation)
         >= RegisteredIndexOf(CheckInTarget(text))

UnregisteredId ==
  LET n == ToNumber(last.req.id.val) IN n.nan \/ n.val \notin RegisteredIndices

\* C4: a POST with well-formed keys whose id matches no registered location
\* (an unregistered number, or text that is no number) is answered with
\* InvalidLocation, whatever the user's state and whatever the state fetch did.
C4_InvalidLocationWhateverState ==
  (Responded /\ WellFormedPost /\ UnregisteredId) =>
    InvalidLocation(last.resp) /\ ~HasTransaction(last.resp)

C4_Witness ==
  /\ Responded /\ WellFormedPost /\ UnregisteredId
  /\ last.prior.exists /\ PriorIndex >= 1
  /\ ~last.net.fetchOk
  /\ InvalidLocation(last.resp)

Generic500(resp) ==
  resp.status = 500 /\ resp.error = <<"error creating transaction">>

MalformedKey ==
  ~ValidKeyText(last.req.account.val) \/ ~ValidKeyText(last.req.reference.val)

\* C5: every unexpected failure during a POST (malformed key, failed state
\* fetch, failed blockhash fetch) is answered with the generic 500, and only
\* InvalidLocation and OutOfOrderVisit are answered with 200 and an empty
\* transaction.
C5_UnexpectedFailuresGet500 ==
  (Responded /\ last.req.method = "POST" /\ ~MissingParameter(last.req)) =>
    /\ (MalformedKey \/ ~last.net.fetchOk \/ ~last.net.blockhash.ok) =>
         Generic500(last.resp)
    /\ (last.resp.status = 200 /\ last.resp.transaction = Str(EmptyString)) =>
         (InvalidLocation(last.resp) \/ OutOfOrderVisit(last.resp))

Called(name) == \E i \in 1..Len(last.resp.trace) : last.resp.trace[i] = name

\* C6: a 200 response to a POST carries a non-empty transaction exactly when
\* the request passed location resolution and ordering validation.
C6_TransactionIffValidated ==
  (Responded /\ last.req.method = "POST" /\ last.resp.status = 200) =>
    (HasTransaction(last.resp) <=> Called("getLatestBlockhash"))

\* C7: a POST with account, reference or id missing (absent or empty) is
\* answered 400 "Missing required parameter(s)" with no network call made and
\* no transaction built or signed.
C7_MissingParameter400 ==
  (Responded /\ last.req.method = "POST"
     /\ (Falsy(last.req.account) \/ Falsy(last.req.reference) \/ Falsy(last.req.id))) =>
    /\ last.resp.status = 400
    /\ last.resp.error = <<"Missing required parameter(s)">>
    /\ ~last.resp.transaction.present
    /\ last.resp.trace = <<>>
    /\ last.resp.submitted = <<>>

C7_Witness ==
  /\ Responded /\ last.req.method = "POST"
  /\ UserOf(last.req) \in Users
  /\ ~Falsy(last.req.reference) /\ ValidKeyText(last.req.reference.val)
  /\ ~last.req.id.present
  /\ last.resp.status = 400

\* the index the ordering rule allows next after a UserState
NextIndexAfter(state) ==
  IF state.exists THEN RegisteredIndexOf(state.lastLocation) + 1 ELSE 1

SameCheckIn(text, user, index) ==
  /\ Base64Decode(text).feePayer = user
  /\ RegisteredIndexOf(CheckInTarget(text)) = index

\* C8: a request for the user's next index is handed a transaction even
\* while a transaction for the same user and index is already waiting; the
\* handler does not deduplicate.
C8_NoDeduplication ==
  (ValidPost /\ last.net.fetchOk /\ last.net.blockhash.ok
     /\ (last.prior.exists => PriorIndex >= 1)
     /\ RequestedId \in RegisteredIndices
     /\ RequestedId = NextIndexAfter(last.prior)
     /\ \E text \in BagToSet(outstanding) :
          SameCheckIn(text, UserOf(last.req), RequestedId)) =>
    /\ HasTransaction(last.resp)
    /\ SameCheckIn(last.resp.transaction.val, UserOf(last.req), RequestedId)

\* two transactions for the same user and index wait at once, neither
\* executed: the user's state still allows that index
C8_Witness ==
  \E t1, t2 \in BagToSet(outstanding) :
    LET user == Base64Decode(t1).feePayer
        index == RegisteredIndexOf(CheckInTarget(t1))
    IN /\ SameCheckIn(t2, user, index)
       /\ (t1 # t2 \/ CopiesIn(t1, outstanding) >= 2)
       /\ index >= 2
       /\ index = NextIndexAfter(accounts[UserStateAddress(user)])

\* the accounts as they would be if every other user's state were other
OwnStateOnly(user, own, other) ==
  [a \in Addresses |-> IF a = UserStateAddress(user) THEN own ELSE other]

\* C9: the response to a request of user A is decided by A's parameters, A's
\* UserState and the registry (and the outcomes of A's own network calls):
\* it is the same whatever state any other user has.
C9_OtherUsersNeverInterfere ==
  (Responded /\ UserOf(last.req) \in Users) =>
    \A other \in InitialStates :
      last.resp = handler(last.req,
                          OwnStateOnly(UserOf(last.req), last.prior, other),
                          last.net)

\* a request is answered with a transaction while another user has state
\* and a returned transaction of their own waiting
C9_Witness ==
  /\ Responded /\ UserOf(last.req) \in Users
  /\ HasTransaction(last.resp)
  /\ \E text \in BagToSet(outstanding) :
       LET b == Base64Decode(text).feePayer IN
       /\ b # UserOf(last.req)
       /\ accounts[UserStateAddress(b)].exists
       /\ accounts[UserStateAddress(b)] # last.prior

\* C10: no step of the handler changes any UserState or sends a transaction
\* to the cluster itself; a UserState changes only in a step that executes a
\* returned transaction.
C10_RequestsNeverWriteUserState ==
  [][/\ last' # last => (accounts' = accounts /\ last'.resp.submitted = <<>>)
     /\ accounts' # accounts =>
          \E text \in BagToSet(outstanding) :
            CopiesIn(text, outstanding') < CopiesIn(text, outstanding)]_vars

\* a transaction has been returned and the user's state is as it was
C10_Witness ==
  /\ ValidPost /\ HasTransaction(last.resp)
  /\ accounts[UserStateAddress(UserOf(last.req))] = last.prior

\* the transaction a response returns, and its check-in instruction
ReturnedTransaction == Base64Decode(last.resp.transaction.val)

CheckInOf(transaction) ==
  transaction.instructions[Len(transaction.instructions)]

C12_PartiallySignedOnly ==
  (Responded /\ HasTransaction(last.resp)) =>
    /\ ReturnedTransaction.feePayer = UserOf(last.req)
    /\ eventOrganizer \in ReturnedTransaction.signatures
    /\ UserOf(last.req) \notin ReturnedTransaction.signatures
    /\ ~(RequiredSigners(ReturnedTransaction) \subseteq ReturnedTransaction.signatures)

\* C12 for an account that is not the organizer's own key
C12_PartiallySignedForOtherAccounts ==
  (Responded /\ HasTransaction(last.resp) /\ UserOf(last.req) # eventOrganizer) =>
    /\ ReturnedTransaction.feePayer = UserOf(last.req)
    /\ ReturnedTransaction.signatures = {eventOrganizer}
    /\ ~(RequiredSigners(ReturnedTransaction) \subseteq ReturnedTransaction.signatures)

\* C13: a GET request is answered 200 with the fixed descriptor {label,
\* icon}, whatever the query string and body hold, with no network call and
\* no read of a UserState.
C13_GetAlwaysDescriptor ==
  (Responded /\ last.req.method = "GET") =>
    /\ last.resp.status = 200
    /\ last.resp.kind = "descriptor"
    /\ last.resp.message =
         <<"Scavenger Hunt!",
           "https://solana.com/src/img/branding/solanaLogoMark.svg">>
    /\ ~last.resp.transaction.present
    /\ last.resp.error = <<>>
    /\ last.resp.trace = <<>>
    /\ last.resp.submitted = <<>>

\* a GET that carries every parameter of a check-in the user could make
C13_Witness ==
  /\ Responded /\ last.req.method = "GET"
  /\ UserOf(last.req) \in Users
  /\ ~Falsy(last.req.reference) /\ ValidKeyText(last.req.reference.val)
  /\ last.req.id = Str(<<"1">>)
  /\ ~accounts[UserStateAddress(UserOf(last.req))].exists
  /\ last.resp.status = 200

\* C14: a request with a method other than GET and POST is answered 405
\* "Method not allowed" and reaches neither the parameter check, nor a state
\* fetch, nor the building of a transaction.
C14_OtherMethods405 ==
  (Responded /\ last.req.method \notin {"GET", "POST"}) =>
    /\ last.resp.status = 405
    /\ last.resp.error = <<"Method not allowed">>
    /\ ~last.resp.transaction.present
    /\ last.resp.trace = <<>>
    /\ last.resp.submitted = <<>>

\* a PUT that carries every parameter of a check-in the user could make
C14_Witness ==
  /\ Responded /\ last.req.method = "PUT"
  /\ UserOf(last.req) \in Users
  /\ ~Falsy(last.req.reference) /\ ValidKeyText(last.req.reference.val)
  /\ last.req.id = Str(<<"1">>)
  /\ ~accounts[UserStateAddress(UserOf(last.req))].exists
  /\ last.resp.status = 405

\* the UserState the handler found: the user's, or none when the fetch failed
SeenState == IF last.net.fetchOk THEN last.prior ELSE NoUserState

\* the ordering rule, stated on indices
OrderAllows(state, index) ==
  IF ~state.exists THEN index = 1
  ELSE /\ RegisteredIndexOf(state.lastLocation) >= 1
       /\ index = RegisteredIndexOf(state.lastLocation) + 1

\* C15: a failed network call of a POST is surfaced as a failure; a failed
\* state fetch is not taken for "never checked in", so a user who has
\* UserState is never handed a transaction that holds an initialize
\* instruction or checks in at index 1.
C15_FetchFailureIsNotNoState ==
  (Responded /\ WellFormedPost) =>
    /\ ~last.net.fetchOk =>
         (~HasTransaction(last.resp) /\ last.resp.status # 200)
    /\ (last.prior.exists /\ HasTransaction(last.resp)) =>
         /\ InstructionNames(last.resp) = <<"checkIn">>
         /\ RegisteredIndexOf(CheckInTarget(last.resp.transaction.val)) # 1

Position(name) == CHOOSE i \in 1..Len(last.resp.trace) : last.resp.trace[i] = name

Before(first, second) ==
  Called(first) /\ Called(second) /\ Position(first) < Position(second)

\* C16 as stated: the id is resolved first and an unregistered id fails with
\* InvalidLocation before the UserState is fetched; the state is fetched
\* before the ordering validation; the blockhash is fetched only after the
\* ordering validation has passed.
C16_StepsInStatedOrder ==
  (Responded /\ WellFormedPost) =>
    /\ Called("fetchUserState") => Before("locationAtIndex", "fetchUserState")
    /\ UnregisteredId =>
         (InvalidLocation(last.resp) /\ ~Called("fetchUserState"))
    /\ Called("verifyCorrectLocation") =>
         Before("fetchUserState", "verifyCorrectLocation")
    /\ Called("getLatestBlockhash") =>
         /\ Before("verifyCorrectLocation", "getLatestBlockhash")
         /\ OrderAllows(SeenState, RequestedId)

\* C16 (amended): the UserState is fetched first and the id is resolved
\* after it; an unregistered id fails with InvalidLocation after the fetch
\* and before the ordering validation; the blockhash is fetched only after
\* the ordering validation has passed.
C16_StepsInCodeOrder ==
  (Responded /\ WellFormedPost) =>
    /\ Before("fetchUserState", "locationAtIndex")
    /\ UnregisteredId =>
         /\ InvalidLocation(last.resp)
         /\ last.resp.trace = <<"fetchUserState", "locationAtIndex">>
    /\ Called("verifyCorrectLocation") =>
         /\ Before("locationAtIndex", "verifyCorrectLocation")
         /\ ~UnregisteredId
    /\ Called("getLatestBlockhash") =>
         /\ Before("verifyCorrectLocation", "getLatestBlockhash")
         /\ OrderAllows(SeenState, RequestedId)
    /\ (~UnregisteredId /\ ~OrderAllows(SeenState, RequestedId)) =>
         /\ OutOfOrderVisit(last.resp)
         /\ ~Called("getLatestBlockhash")

\* an unregistered id was refused after the state of a user had been fetched
C16_Witness ==
  /\ Responded /\ WellFormedPost /\ UnregisteredId
  /\ last.prior.exists /\ last.net.fetchOk
  /\ last.resp.trace = <<"fetchUserState", "locationAtIndex">>
  /\ InvalidLocation(last.resp)

RequestedLocationKey ==
  locations[CHOOSE i \in 1..Len(locations) : locations[i].index = RequestedId].key

\* C17: in every returned transaction the initialize instruction is present
\* exactly when the handler found no UserState, and then before the check-in
\* instruction; the check-in instruction is always present, always last, and
\* carries the key of the location whose index was requested.
C17_InitializeThenCheckIn ==
  (Responded /\ HasTransaction(last.resp)) =>
    /\ InstructionNames(last.resp) =
         IF SeenState.exists THEN <<"checkIn">> ELSE <<"initialize", "checkIn">>
    /\ RequestedId \in RegisteredIndices
    /\ CheckInOf(ReturnedTransaction).args = <<gameId, RequestedLocationKey>>
    /\ \A i \in 1..Len(ReturnedTransaction.instructions) :
         ReturnedTransaction.instructions[i].keys[1].pubkey = UserOf(last.req)

C17_Witness ==
  /\ Responded /\ HasTransaction(last.resp)
  /\ ~last.prior.exists
  /\ InstructionNames(last.resp) = <<"initialize", "checkIn">>
  /\ CheckInTarget(last.resp.transaction.val) = locations[1].key

\* C18: the organizer signs only after the ordering validation has passed:
\* a request answered with 400, 405, InvalidLocation or OutOfOrderVisit never
\* reaches partialSign, and every partialSign follows a validation that the
\* ordering rule allows.
C18_SignsOnlyAfterValidation ==
  Responded =>
    /\ (\/ last.resp.status \in {400, 405}
        \/ InvalidLocation(last.resp)
        \/ OutOfOrderVisit(last.resp)) => ~Called("partialSign")
    /\ Called("partialSign") =>
         /\ WellFormedPost
         /\ Before("verifyCorrectLocation", "partialSign")
         /\ RequestedId \in RegisteredIndices
         /\ OrderAllows(SeenState, RequestedId)

C18_Witness ==
  /\ Responded /\ Called("partialSign")
  /\ last.prior.exists /\ last.net.fetchOk
  /\ RequestedId = PriorIndex + 1

\* the user's UserState names a location that is not registered
ForeignState ==
  last.prior.exists /\ RegisteredIndexOf(last.prior.lastLocation) = 0

\* C19: for a user whose UserState names a lastLocation that matches no
\* registered location, every POST with a registered id is rejected with
\* OutOfOrderVisit, and no request returns a transaction.
C19_ForeignStateNeverAdvances ==
  (Responded /\ ForeignState) =>
    /\ ~HasTransaction(last.resp)
    /\ (WellFormedPost /\ ~UnregisteredId) => OutOfOrderVisit(last.resp)

\* C19 when the state fetch succeeds
C19_ForeignStateNeverAdvancesWhenFetched ==
  (Responded /\ ForeignState /\ last.net.fetchOk) =>
    /\ ~HasTransaction(last.resp)
    /\ (WellFormedPost /\ ~UnregisteredId) => OutOfOrderVisit(last.resp)

AtLastLocation ==
  last.prior.exists /\ RegisteredIndexOf(last.prior.lastLocation) = NumLocations

\* C20: a user whose UserState names the last location is in a terminal
\* state: no request of that user yields a transaction.
C20_LastLocationIsTerminal ==
  (Responded /\ AtLastLocation) => ~HasTransaction(last.resp)

\* C20 when the state fetch succeeds
C20_LastLocationIsTerminalWhenFetched ==
  (Responded /\ AtLastLocation /\ last.net.fetchOk) => ~HasTransaction(last.resp)

====
